---- MODULE Spec2Model ----
(***************************************************************************)
(* State-machine model of the n8n chat application (src/app.py,            *)
(* src/database.py): the three JSON collections (webhooks, users, chats),  *)
(* the per-browser Flask session, and one action per HTTP handler.         *)
(*                                                                         *)
(* Strings are sequences of one-character strings, so that strip(),        *)
(* lower() and len() are computed as Python computes them.  A uuid4() is   *)
(* the next value of a counter (fresh, never repeated).  Time is a         *)
(* strictly increasing clock: each request whose handler calls             *)
(* datetime.now() reads the next instant, and the calls within one request *)
(* read that same instant.                                                 *)
(* isoformat() strings of instants compare as the instants do, so          *)
(* timestamps are kept as the instants' numbers.                           *)
(***************************************************************************)
EXTENDS Integers, Sequences, FiniteSets, TLC

\* ------------------------------------------------------------------ bounds
\* The last instant of the clock: a request that would read a later one is
\* not issued.
MaxClock == 3
\* The number of webhooks after which POST /api/webhooks is no longer issued.
MaxWebhooks == 1
\* The uuid counter value after which POST /api/webhooks is no longer issued.
MaxUuid == 1

\* --------------------------------------------------------------- constants
\* rename_chat_endpoint: "if len(new_title) > 100".
TitleLimit == 100
\* login: "if len(username) < 2".
MinUsername == 2

\* ----------------------------------------------------------------- strings
Whitespace == {" "}

RECURSIVE lstrip(_)
lstrip(str) ==
    IF str # <<>> /\ Head(str) \in Whitespace THEN lstrip(Tail(str)) ELSE str

RECURSIVE rstrip(_)
rstrip(str) ==
    IF str # <<>> /\ str[Len(str)] \in Whitespace
    THEN rstrip(SubSeq(str, 1, Len(str) - 1))
    ELSE str

\* A mutant of strip: only trailing whitespace is removed.
strip_trailing(str) == rstrip(str)

\* A mutant of strip: leading and trailing whitespace is kept.
strip_keep(str) == str

\* str.strip()
strip(str) == rstrip(lstrip(str))

UpperToLower ==
    ("A" :> "a") @@ ("B" :> "b") @@ ("L" :> "l") @@ ("O" :> "o")

\* str.lower()
lower(str) ==
    [i \in 1..Len(str) |->
        IF str[i] \in DOMAIN UpperToLower THEN UpperToLower[str[i]] ELSE str[i]]

\* n copies of the character c.
Rep(c, n) == [i \in 1..n |-> c]

DigitChar == <<"0", "1", "2", "3", "4", "5", "6", "7", "8", "9">>

\* str(n) for a natural number n.
RECURSIVE Decimal(_)
Decimal(n) ==
    IF n < 10 THEN <<DigitChar[n + 1]>>
    ELSE Decimal(n \div 10) \o <<DigitChar[(n % 10) + 1]>>

\* now.strftime("%b %-d, %H:%M"): the tick t is rendered as the minute of a
\* fixed day and hour.
strftime(t) ==
    <<"J", "a", "n", " ", "7", ",", " ", "2", "2", ":">>
        \o <<DigitChar[((t \div 10) % 6) + 1], DigitChar[(t % 10) + 1]>>

\* f"Chat-{n} ({formatted_date})"
AutoTitle(n, t) ==
    <<"C", "h", "a", "t", "-">> \o Decimal(n) \o <<" ", "(">> \o strftime(t) \o <<")">>

\* ------------------------------------------------------------- dictionaries
\* A dict with string keys is a function on the set of its keys.
EmptyDict == [k \in {} |-> 0]

Put(d, key, val) == [k \in (DOMAIN d) \cup {key} |-> IF k = key THEN val ELSE d[k]]

\* dict.pop(key, None)
Pop(d, key) == [k \in (DOMAIN d) \ {key} |-> d[k]]

\* Python's None where an id is expected (uuids are numbered from 1).
None == 0

\* The empty string given where an id is expected.
EmptyId == -1

\* The truth value of an id-valued item: None and '' are false.
Truthy(v) == v \notin {None, EmptyId}

\* dict.get(key) for the id-valued keys.
Get(d, key) == IF key \in DOMAIN d THEN d[key] ELSE None

\* The least index of seq whose item satisfies Test, or 0.
FirstIndex(seq, Test(_)) ==
    IF \E i \in 1..Len(seq) : Test(seq[i])
    THEN CHOOSE i \in 1..Len(seq) :
            Test(seq[i]) /\ \A j \in 1..(i - 1) : ~Test(seq[j])
    ELSE 0

\* ------------------------------------------------------------------- state
VARIABLES
    files,      \* the data files that exist: a subset of FileNames
    webhooks,   \* the content of webhooks.json: a list of webhook records
    users,      \* the content of users.json: a list of user records
    chats,      \* the content of chats.json: a list of chat records
    session,    \* the Flask session (a dict) of each browser session
    clock,      \* the last instant datetime.now() returned
    uuid,       \* the last value uuid.uuid4() returned
    req         \* the request in flight of each browser session (step-wise runs)

vars == <<files, webhooks, users, chats, session, clock, uuid, req>>

FileNames == {"webhooks", "users", "chats"}

\* The three collections with the files that hold them.
Store == [files |-> files, webhooks |-> webhooks, users |-> users, chats |-> chats]

\* ---------------------------------------------------------- the record store
\* ensure_data_file(): creates the missing files with empty collections.  The
\* branch that creates chats.json writes an empty users.json as well.
ensure_data_file(st) ==
    LET st1 == IF "webhooks" \notin st.files
               THEN [st EXCEPT !.files = @ \cup {"webhooks"}, !.webhooks = <<>>]
               ELSE st
        st2 == IF "users" \notin st1.files
               THEN [st1 EXCEPT !.files = @ \cup {"users"}, !.users = <<>>]
               ELSE st1
    IN  IF "chats" \notin st2.files
        THEN [st2 EXCEPT !.files = @ \cup {"chats", "users"},
                         !.chats = <<>>, !.users = <<>>]
        ELSE st2

\* The value returned where no user is found (Python's None).
NoUser == [id |-> None, username |-> <<>>, created_at |-> 0, last_login |-> 0]

\* The value returned where no chat is found (Python's None).
NoChat ==
    [id |-> None, user_id |-> None, session_id |-> None, title |-> <<>>,
     created_at |-> 0, updated_at |-> 0]

\* The value returned where no webhook is found (Python's None).
NoWebhook == [id |-> None, name |-> "", url |-> ""]

\* A mutant of get_user_by_username: usernames are compared as written.
get_user_by_username_cased(userlist, username) ==
    LET i == FirstIndex(userlist, LAMBDA u : u.username = username)
    IN  IF i = 0 THEN NoUser ELSE userlist[i]

\* get_user_by_username(username), on the list read_users() returned.
get_user_by_username(userlist, username) ==
    LET i == FirstIndex(userlist, LAMBDA u : lower(u.username) = lower(username))
    IN  IF i = 0 THEN NoUser ELSE userlist[i]

\* add_user, lines 102-122: the list written back, given the list read at line
\* 102, the user found at line 105, and the clock and uuid counters.
add_user_list(userlist, existing_user, username, t, u) ==
    IF existing_user.id # None
    THEN LET i == FirstIndex(userlist,
                             LAMBDA x : lower(x.username) = lower(username))
         IN  IF i = 0 THEN userlist
             ELSE [userlist EXCEPT ![i].last_login = t + 1]
    ELSE Append(userlist,
                [id |-> u + 1, username |-> username,
                 created_at |-> t + 1, last_login |-> t + 1])

\* The clock after add_user's calls of datetime.now().
add_user_clock(userlist, existing_user, username, t) ==
    IF existing_user.id # None
    THEN IF FirstIndex(userlist,
                       LAMBDA x : lower(x.username) = lower(username)) = 0
         THEN t ELSE t + 1
    ELSE t + 1

\* The uuid counter after add_user.
add_user_uuid(existing_user, u) == IF existing_user.id # None THEN u ELSE u + 1

\* add_user(username) run without interruption: the list written, the user
\* returned by the read-back of line 123, and the counters.
add_user(userlist, username, t, u) ==
    LET existing_user == get_user_by_username(userlist, username)
        written == add_user_list(userlist, existing_user, username, t, u)
    IN  [users |-> written,
         user  |-> get_user_by_username(written, username),
         clock |-> add_user_clock(userlist, existing_user, username, t),
         uuid  |-> add_user_uuid(existing_user, u)]

\* A mutant of get_user_chats: the chats of every user are returned.
get_user_chats_all(chatlist, user_id) == chatlist

\* get_user_chats(user_id), on the list read_chats() returned.
get_user_chats(chatlist, user_id) ==
    SelectSeq(chatlist, LAMBDA c : c.user_id = user_id)

\* get_chat_by_id(chat_id), on the list read_chats() returned.
get_chat_by_id(chatlist, chat_id) ==
    LET i == FirstIndex(chatlist, LAMBDA c : c.id = chat_id)
    IN  IF i = 0 THEN NoChat ELSE chatlist[i]

\* A mutant of get_webhook_by_id: the id test is lost, the first webhook is
\* returned.
get_webhook_by_id_first(hooklist, webhook_id) ==
    IF hooklist = <<>> THEN NoWebhook ELSE hooklist[1]

\* get_webhook_by_id(webhook_id), on the list read_webhooks() returned.
get_webhook_by_id(hooklist, webhook_id) ==
    LET i == FirstIndex(hooklist, LAMBDA w : w.id = webhook_id)
    IN  IF i = 0 THEN NoWebhook ELSE hooklist[i]

\* A mutant of new_chat: the title carries the count, not the count plus one.
new_chat_count(user_chats_count, user_id, title, t, u) ==
    [id |-> u + 2, user_id |-> user_id, session_id |-> u + 1,
     title |-> IF title = <<>> THEN AutoTitle(user_chats_count, t + 1) ELSE title,
     created_at |-> t + 1, updated_at |-> t + 1]

\* create_new_chat, lines 160-177: the new chat record, given the number of
\* chats get_user_chats returned at line 164.  A title of None and an empty
\* title are both "not title"; both are the empty string here.
new_chat(user_chats_count, user_id, title, t, u) ==
    IF title = <<>>
    THEN [id |-> u + 2, user_id |-> user_id, session_id |-> u + 1,
          title |-> AutoTitle(user_chats_count + 1, t + 1),
          created_at |-> t + 1, updated_at |-> t + 1]
    ELSE [id |-> u + 2, user_id |-> user_id, session_id |-> u + 1,
          title |-> title, created_at |-> t + 1, updated_at |-> t + 1]

\* create_new_chat(user_id, title) run without interruption.
create_new_chat(chatlist, user_id, title, t, u) ==
    LET nc == new_chat(Len(get_user_chats(chatlist, user_id)), user_id, title, t, u)
    IN  [chats |-> Append(chatlist, nc), chat |-> nc,
         clock |-> nc.updated_at, uuid |-> u + 2]

\* A mutant of update_chat: the id test is lost for the timestamp, so every
\* chat's updated_at is bumped.
update_chat_all(chatlist, chat_id, updates, t) ==
    LET i == FirstIndex(chatlist, LAMBDA c : c.id = chat_id)
    IN  IF i = 0 THEN [chats |-> chatlist, chat |-> NoChat, clock |-> t]
        ELSE LET upd == [j \in 1..Len(chatlist) |->
                            [chatlist[j] EXCEPT !.updated_at = t + 1]]
             IN  [chats |-> upd, chat |-> upd[i], clock |-> t + 1]

\* update_chat(chat_id, updates): the first chat with that id gets the title of
\* updates, when it has one, and a new updated_at; the list is written only
\* when the chat is found.
update_chat(chatlist, chat_id, updates, t) ==
    LET i == FirstIndex(chatlist, LAMBDA c : c.id = chat_id)
    IN  IF i = 0 THEN [chats |-> chatlist, chat |-> NoChat, clock |-> t]
        ELSE LET c1 == IF "title" \in DOMAIN updates
                       THEN [chatlist[i] EXCEPT !.title = updates.title]
                       ELSE chatlist[i]
                 c2 == [c1 EXCEPT !.updated_at = t + 1]
             IN  [chats |-> [chatlist EXCEPT ![i] = c2], chat |-> c2,
                  clock |-> t + 1]

\* delete_chat(chat_id): the list without the chats of that id, and whether
\* one was removed.
delete_chat(chatlist, chat_id) ==
    LET kept == SelectSeq(chatlist, LAMBDA c : c.id # chat_id)
    IN  [chats |-> kept, ok |-> Len(kept) < Len(chatlist)]

\* ---------------------------------------------------------------- handlers
\* What a handler leaves behind: the store, the session, the counters, and the
\* response (status, the text of its message or error, the payload posted to
\* a webhook if one was posted, the history returned if one was returned).
Result(st, sess, t, u, status, note) ==
    [st |-> st, sess |-> sess, clock |-> t, uuid |-> u,
     status |-> status, note |-> note, post |-> <<>>, hist |-> <<>>,
     body |-> EmptyDict]

\* A mutant of login_required: the test reads the key logout leaves behind.
login_required_user_id(sess) == "user_id" \in DOMAIN sess

\* login_required: the wrapped handler runs only if 'username' is in session.
login_required(sess) == "username" \in DOMAIN sess

\* What login_required answers otherwise: redirect(url_for('login')).
RedirectToLogin(st, sess, t, u) == Result(st, sess, t, u, 302, "redirect:/login")

\* A mutant of latest_chat: the sort is ascending, so the oldest chat is taken.
latest_chat_oldest(user_chats) ==
    user_chats[FirstIndex(user_chats,
        LAMBDA c : \A i \in 1..Len(user_chats) :
            c.updated_at <= user_chats[i].updated_at)]

\* sorted(user_chats, key=updated_at, reverse=True)[0]: the sort is stable, so
\* of the chats with the greatest updated_at the first of the list is taken.
latest_chat(user_chats) ==
    user_chats[FirstIndex(user_chats,
        LAMBDA c : \A i \in 1..Len(user_chats) :
            user_chats[i].updated_at <= c.updated_at)]

\* A mutant of bind_chat: the chat's id is bound as the session_id too.
bind_chat_by_id(sess, chat) ==
    Put(Put(sess, "chat_id", chat.id), "session_id", chat.id)

\* session['chat_id'] = chat['id']; session['session_id'] = chat['session_id']
bind_chat(sess, chat) ==
    Put(Put(sess, "chat_id", chat.id), "session_id", chat.session_id)

\* POST /login
login(st, sess, data, t, u) ==
    IF "username" \notin DOMAIN data
    THEN Result(st, sess, t, u, 400, "Username is required.")
    ELSE
    LET username == strip(data.username) IN
    IF Len(username) < MinUsername
    THEN Result(st, sess, t, u, 400, "Username must be at least 2 characters long.")
    ELSE
    LET e     == ensure_data_file(st)
        au    == add_user(e.users, username, t, u)
        sess1 == Put(Put(sess, "username", username), "user_id", au.user.id)
        user_chats == get_user_chats(e.chats, au.user.id)
    IN  IF user_chats = <<>>
        THEN LET cc == create_new_chat(e.chats, au.user.id, <<>>, t, au.uuid)
             IN  Result([e EXCEPT !.users = au.users, !.chats = cc.chats],
                        bind_chat(sess1, cc.chat), cc.clock, cc.uuid,
                        200, "Login successful.")
        ELSE Result([e EXCEPT !.users = au.users],
                    bind_chat(sess1, latest_chat(user_chats)), au.clock, au.uuid,
                    200, "Login successful.")

\* GET /logout
logout(st, sess, t, u) ==
    Result(st, Pop(sess, "username"), t, u, 302, "redirect:/login")

\* GET /chat and GET /webhooks
page(st, sess, t, u) ==
    IF ~login_required(sess) THEN RedirectToLogin(st, sess, t, u)
    ELSE Result(st, sess, t, u, 200, "page")

\* GET /api/users
get_users(st, sess, t, u) ==
    IF ~login_required(sess) THEN RedirectToLogin(st, sess, t, u)
    ELSE Result(ensure_data_file(st), sess, t, u, 200, "users")

\* GET /api/chats
get_chats(st, sess, t, u) ==
    IF ~login_required(sess) THEN RedirectToLogin(st, sess, t, u)
    ELSE IF Get(sess, "user_id") = None
    THEN Result(st, sess, t, u, 401, "User not found in session.")
    ELSE Result(ensure_data_file(st), sess, t, u, 200, "chats")

\* POST /api/chats
create_chat(st, sess, data, t, u) ==
    IF ~login_required(sess) THEN RedirectToLogin(st, sess, t, u)
    ELSE IF Get(sess, "user_id") = None
    THEN Result(st, sess, t, u, 401, "User not found in session.")
    ELSE
    LET e     == ensure_data_file(st)
        title == IF "title" \in DOMAIN data THEN data.title ELSE <<>>
        cc    == create_new_chat(e.chats, sess.user_id, title, t, u)
    IN  Result([e EXCEPT !.chats = cc.chats], bind_chat(sess, cc.chat),
               cc.clock, cc.uuid, 201, "Chat created successfully.")

\* A mutant of not_owner: the ownership test is lost.
not_owner_never(chat, user_id) == FALSE

\* chat.get("user_id") != user_id: the test that answers 403 in the update,
\* rename, delete and history handlers.
not_owner(chat, user_id) == chat.user_id # user_id

\* PUT /api/chats/<chat_id>
update_chat_endpoint(st, sess, chat_id, data, t, u) ==
    IF ~login_required(sess) THEN RedirectToLogin(st, sess, t, u)
    ELSE IF Get(sess, "user_id") = None
    THEN Result(st, sess, t, u, 401, "User not found in session.")
    ELSE
    LET e    == ensure_data_file(st)
        chat == get_chat_by_id(e.chats, chat_id)
    IN  IF chat.id = None THEN Result(e, sess, t, u, 404, "Chat not found.")
        ELSE IF not_owner(chat, sess.user_id)
        THEN Result(e, sess, t, u, 403, "Unauthorized.")
        ELSE IF "action" \in DOMAIN data /\ data.action = "switch"
        THEN Result(e, bind_chat(sess, chat), t, u, 200,
                    "Switched to chat successfully.")
        ELSE
        LET updates == IF "title" \in DOMAIN data
                       THEN [title |-> data.title] ELSE EmptyDict
            uc == update_chat(e.chats, chat_id, updates, t)
        IN  IF uc.chat.id # None
            THEN Result([e EXCEPT !.chats = uc.chats], sess, uc.clock, u,
                        200, "Chat updated successfully.")
            ELSE Result(e, sess, t, u, 500, "Failed to update chat.")

\* PUT /api/chats/<chat_id>/rename
rename_chat_endpoint(st, sess, chat_id, data, t, u) ==
    IF ~login_required(sess) THEN RedirectToLogin(st, sess, t, u)
    ELSE IF Get(sess, "user_id") = None
    THEN Result(st, sess, t, u, 401, "User not found in session.")
    ELSE
    LET e    == ensure_data_file(st)
        chat == get_chat_by_id(e.chats, chat_id)
    IN  IF chat.id = None THEN Result(e, sess, t, u, 404, "Chat not found.")
        ELSE IF not_owner(chat, sess.user_id)
        THEN Result(e, sess, t, u, 403, "Unauthorized.")
        ELSE IF "title" \notin DOMAIN data
        THEN Result(e, sess, t, u, 400, "Missing 'title' in request body.")
        ELSE
        LET new_title == strip(data.title) IN
        IF new_title = <<>>
        THEN Result(e, sess, t, u, 400, "Title cannot be empty.")
        ELSE IF Len(new_title) > TitleLimit
        THEN Result(e, sess, t, u, 400, "Title must be 100 characters or less.")
        ELSE
        LET uc == update_chat(e.chats, chat_id, [title |-> new_title], t)
        IN  IF uc.chat.id # None
            THEN Result([e EXCEPT !.chats = uc.chats], sess, uc.clock, u,
                        200, "Chat renamed successfully.")
            ELSE Result(e, sess, t, u, 500, "Failed to rename chat.")

\* A mutant of clear_active_chat: the binding is kept.
clear_active_chat_kept(sess, chat_id) == sess

\* delete_chat_endpoint, lines 412-414: if this was the active chat, clear it.
clear_active_chat(sess, chat_id) ==
    IF Get(sess, "chat_id") = chat_id
    THEN Pop(Pop(sess, "chat_id"), "session_id")
    ELSE sess

\* DELETE /api/chats/<chat_id>
delete_chat_endpoint(st, sess, chat_id, t, u) ==
    IF ~login_required(sess) THEN RedirectToLogin(st, sess, t, u)
    ELSE IF Get(sess, "user_id") = None
    THEN Result(st, sess, t, u, 401, "User not found in session.")
    ELSE
    LET e    == ensure_data_file(st)
        chat == get_chat_by_id(e.chats, chat_id)
    IN  IF chat.id = None THEN Result(e, sess, t, u, 404, "Chat not found.")
        ELSE IF not_owner(chat, sess.user_id)
        THEN Result(e, sess, t, u, 403, "Unauthorized.")
        ELSE
        LET dc == delete_chat(e.chats, chat_id)
        IN  IF dc.ok
            THEN Result([e EXCEPT !.chats = dc.chats],
                        clear_active_chat(sess, chat_id), t, u,
                        200, "Chat deleted successfully.")
            ELSE Result(e, sess, t, u, 500, "Failed to delete chat.")

\* database.get_chat_history(session_id): the rows of the session in ascending
\* id order, each message column that is a string of JSON parsed; on any
\* failure of the connection or the query the empty list.  db is what the
\* external store does: whether the read succeeds, and the rows it holds.
get_chat_history(db) ==
    IF ~db.ok THEN <<>>
    ELSE [i \in 1..Len(db.rows) |->
            IF db.rows[i].form = "json"
            THEN [db.rows[i] EXCEPT !.form = "object"]
            ELSE IF db.rows[i].form = "json_list"
            THEN [db.rows[i] EXCEPT !.form = "list"]
            ELSE db.rows[i]]

\* Whether database.get_chat_history raises: its handlers at lines 117-123
\* catch every exception of the connection, the query and the parsing and
\* return [], and with no connection the finally clause closes nothing.
get_chat_history_raises(db) == FALSE

\* A mutant of format_history: a message of another type is not skipped but
\* taken for the assistant's.
format_history_all(raw_history) ==
    LET kept == SelectSeq(raw_history, LAMBDA m : m.form = "object")
    IN  [i \in 1..Len(kept) |->
            [role |-> IF kept[i].type = "human" THEN "user" ELSE "assistant",
             content |-> kept[i].content]]

\* get_chat_history_api, lines 552-573: messages that are objects of type
\* 'human' or 'ai' become {role, content}; every other row is skipped.
format_history(raw_history) ==
    LET kept == SelectSeq(raw_history,
                    LAMBDA m : m.form = "object" /\ m.type \in {"human", "ai"})
    IN  [i \in 1..Len(kept) |->
            [role |-> IF kept[i].type = "human" THEN "user" ELSE "assistant",
             content |-> kept[i].content]]

\* GET /api/chat/history; chat_id is None when the query has no chat_id.
get_chat_history_api(st, sess, chat_id, db, t, u) ==
    IF ~login_required(sess) THEN RedirectToLogin(st, sess, t, u)
    ELSE
    LET e    == IF chat_id # None THEN ensure_data_file(st) ELSE st
        chat == get_chat_by_id(e.chats, chat_id)
    IN  IF chat_id # None /\ chat.id = None
        THEN Result(e, sess, t, u, 404, "Chat not found.")
        ELSE IF chat_id # None /\ not_owner(chat, Get(sess, "user_id"))
        THEN Result(e, sess, t, u, 403, "Unauthorized.")
        ELSE IF chat_id = None /\ "session_id" \notin DOMAIN sess
        THEN Result(e, sess, t, u, 200, "No active chat found.")
        ELSE
        LET session_id == IF chat_id # None THEN chat.session_id ELSE sess.session_id
            cid        == IF chat_id # None THEN chat_id ELSE Get(sess, "chat_id")
            formatted  == format_history(get_chat_history(db))
        IN  IF get_chat_history_raises(db)
            THEN [Result(e, sess, t, u, 200, "history") EXCEPT
                    !.body = [chat_id |-> cid, session_id |-> session_id,
                              total_messages |-> 0,
                              error |-> "Could not load chat history"]]
            ELSE [Result(e, sess, t, u, 200, "history") EXCEPT
                    !.hist = formatted,
                    !.body = [chat_id |-> cid, session_id |-> session_id,
                              total_messages |-> Len(formatted)]]

\* session.get('username', 'Anonymous')
Anonymous == <<"A", "n", "o", "n", "y", "m", "o", "u", "s">>

\* send_message, lines 639-657: the status answered for what the webhook did.
relay_status(outcome) ==
    CASE outcome = "reply"    -> 200
      [] outcome = "no_reply" -> 500
      [] outcome = "timeout"  -> 504
      [] OTHER                -> 500

\* POST /chat/send; outcome is what the webhook does with the call.
send_message(st, sess, data, outcome, t, u) ==
    IF ~login_required(sess) THEN RedirectToLogin(st, sess, t, u)
    ELSE IF "message" \notin DOMAIN data
    THEN Result(st, sess, t, u, 400, "Invalid request. 'message' field is required.")
    ELSE
    LET e          == ensure_data_file(st)
        webhook_id == Get(data, "webhook_id")
        webhook    == IF Truthy(webhook_id)
                      THEN get_webhook_by_id(e.webhooks, webhook_id)
                      ELSE IF e.webhooks # <<>> THEN e.webhooks[1] ELSE NoWebhook
    IN  IF Truthy(webhook_id) /\ webhook.id = None
        THEN Result(e, sess, t, u, 404, "Selected webhook not found.")
        ELSE IF ~Truthy(webhook_id) /\ e.webhooks = <<>>
        THEN Result(e, sess, t, u, 400, "No webhook is configured.")
        ELSE
        LET fresh == "session_id" \notin DOMAIN sess \/ "chat_id" \notin DOMAIN sess
            cc    == create_new_chat(e.chats, Get(sess, "user_id"), <<>>, t, u)
            sess1 == IF fresh THEN bind_chat(sess, cc.chat) ELSE sess
            chats1 == IF fresh THEN cc.chats ELSE e.chats
            u1    == IF fresh THEN cc.uuid ELSE u
            uc    == update_chat(chats1, sess1.chat_id, EmptyDict, t)
            payload == [url |-> webhook.url,
                        user_message |-> data.message,
                        session_id |-> sess1.session_id,
                        username |-> IF "username" \in DOMAIN sess1
                                     THEN sess1.username ELSE Anonymous]
            t1    == IF fresh THEN cc.clock ELSE uc.clock
        IN  [Result([e EXCEPT !.chats = uc.chats], sess1, t1, u1,
                    relay_status(outcome), outcome)
                EXCEPT !.post = <<payload>>]

\* POST /api/webhooks
create_webhook(st, data, u) ==
    IF "name" \notin DOMAIN data \/ "url" \notin DOMAIN data
    THEN [st |-> st, uuid |-> u, status |-> 400,
          note |-> "Missing 'name' or 'url' in request body."]
    ELSE LET e == ensure_data_file(st)
         IN  [st |-> [e EXCEPT !.webhooks =
                        Append(@, [id |-> u + 1, name |-> data.name, url |-> data.url])],
              uuid |-> u + 1, status |-> 201,
              note |-> "Webhook created successfully."]

\* GET /api/webhooks: the registry is read and returned.
get_webhooks(st, u) ==
    [st |-> ensure_data_file(st), uuid |-> u, status |-> 200, note |-> "webhooks"]

\* A mutant of update_webhook: the test of the body is lost.
update_webhook_unchecked(st, webhook_id, data, u) ==
    LET e == ensure_data_file(st)
        i == FirstIndex(e.webhooks, LAMBDA w : w.id = webhook_id)
    IN  IF i = 0
        THEN [st |-> e, uuid |-> u, status |-> 404, note |-> "Webhook not found."]
        ELSE [st |-> e, uuid |-> u, status |-> 200,
              note |-> "Webhook updated successfully."]

\* PUT /api/webhooks/<webhook_id>
update_webhook(st, webhook_id, data, u) ==
    IF "name" \notin DOMAIN data /\ "url" \notin DOMAIN data
    THEN [st |-> st, uuid |-> u, status |-> 400,
          note |-> "Missing 'name' or 'url' in request body."]
    ELSE
    LET e == ensure_data_file(st)
        i == FirstIndex(e.webhooks, LAMBDA w : w.id = webhook_id)
    IN  IF i = 0
        THEN [st |-> e, uuid |-> u, status |-> 404, note |-> "Webhook not found."]
        ELSE LET w1 == IF "name" \in DOMAIN data
                       THEN [e.webhooks[i] EXCEPT !.name = data.name]
                       ELSE e.webhooks[i]
                 w2 == IF "url" \in DOMAIN data
                       THEN [w1 EXCEPT !.url = data.url] ELSE w1
             IN  [st |-> [e EXCEPT !.webhooks[i] = w2], uuid |-> u,
                  status |-> 200, note |-> "Webhook updated successfully."]

\* A mutant of delete_webhook: when a webhook has the id, the first webhook
\* is the one removed.
delete_webhook_head(st, webhook_id, u) ==
    LET e == ensure_data_file(st)
    IN  IF \A i \in 1..Len(e.webhooks) : e.webhooks[i].id # webhook_id
        THEN [st |-> e, uuid |-> u, status |-> 404, note |-> "Webhook not found."]
        ELSE [st |-> [e EXCEPT !.webhooks = Tail(@)], uuid |-> u, status |-> 200,
              note |-> "Webhook deleted successfully."]

\* DELETE /api/webhooks/<webhook_id>
delete_webhook(st, webhook_id, u) ==
    LET e    == ensure_data_file(st)
        kept == SelectSeq(e.webhooks, LAMBDA w : w.id # webhook_id)
    IN  IF Len(kept) = Len(e.webhooks)
        THEN [st |-> e, uuid |-> u, status |-> 404, note |-> "Webhook not found."]
        ELSE [st |-> [e EXCEPT !.webhooks = kept], uuid |-> u, status |-> 200,
              note |-> "Webhook deleted successfully."]

\* GET /api/webhook: the url of the first webhook, or None and 404.
get_webhook(st, u) ==
    LET e == ensure_data_file(st)
    IN  IF e.webhooks # <<>>
        THEN [st |-> e, uuid |-> u, status |-> 200, note |-> "webhook_url",
              webhook_url |-> e.webhooks[1].url]
        ELSE [st |-> e, uuid |-> u, status |-> 404, note |-> "webhook_url",
              webhook_url |-> ""]

\* The name the legacy endpoint gives the webhook it creates.
DefaultWebhook == "Default Webhook"

\* A mutant of update_webhook_legacy: a webhook is added also when the
\* registry has one.
update_webhook_legacy_append(st, data, u) ==
    IF "webhook_url" \notin DOMAIN data
    THEN [st |-> st, uuid |-> u, status |-> 400,
          note |-> "Missing 'webhook_url' in request body."]
    ELSE LET e == ensure_data_file(st)
         IN  [st |-> [e EXCEPT !.webhooks =
                        Append(@, [id |-> u + 1, name |-> DefaultWebhook,
                                   url |-> data.webhook_url])],
              uuid |-> u + 1, status |-> 200,
              note |-> "Webhook updated successfully."]

\* POST /api/webhook
update_webhook_legacy(st, data, u) ==
    IF "webhook_url" \notin DOMAIN data
    THEN [st |-> st, uuid |-> u, status |-> 400,
          note |-> "Missing 'webhook_url' in request body."]
    ELSE
    LET e == ensure_data_file(st)
    IN  IF e.webhooks # <<>>
        THEN [st |-> [e EXCEPT !.webhooks[1].url = data.webhook_url],
              uuid |-> u, status |-> 200,
              note |-> "Webhook updated successfully."]
        ELSE [st |-> [e EXCEPT !.webhooks =
                        <<[id |-> u + 1, name |-> DefaultWebhook,
                           url |-> data.webhook_url]>>],
              uuid |-> u + 1, status |-> 200,
              note |-> "Webhook updated successfully."]

\* A mutant of delete_webhook_legacy: only the first webhook is removed.
delete_webhook_legacy_first(st, u) ==
    [st |-> [ensure_data_file(st) EXCEPT !.webhooks =
                IF @ = <<>> THEN <<>> ELSE Tail(@)],
     uuid |-> u, status |-> 200, note |-> "Webhook deleted successfully."]

\* DELETE /api/webhook
delete_webhook_legacy(st, u) ==
    [st |-> [ensure_data_file(st) EXCEPT !.webhooks = <<>>], uuid |-> u,
     status |-> 200, note |-> "Webhook deleted successfully."]

\* ------------------------------------------------------------------ inputs
\* The browser sessions; the requests of the sequential runs come from the
\* first of them, those of the step-wise runs from both.
Browsers == {"s1", "s2"}

Sessions == {"s1"}

\* No request in flight.
Idle == [pc |-> "idle"]

\* The JSON bodies posted to /login: no username, two spellings of one name, a
\* second name with blanks around it, and a name too short once trimmed.
LoginBodies ==
    {EmptyDict,
     [username |-> <<"a", "l">>],
     [username |-> <<"A", "L">>],
     [username |-> <<" ", "b", "o", " ">>],
     [username |-> <<" ", "a", " ">>]}

\* The JSON bodies posted to /api/chats.
CreateBodies ==
    {EmptyDict, [title |-> <<>>], [title |-> Rep("x", TitleLimit + 1)]}

\* The JSON bodies put to /api/chats/<chat_id>.
UpdateBodies ==
    {[action |-> "switch"], [title |-> Rep("x", TitleLimit + 1)]}

\* The JSON bodies put to /api/chats/<chat_id>/rename.
RenameBodies ==
    {EmptyDict,
     [title |-> <<" ">>],
     [title |-> <<" ">> \o Rep("y", TitleLimit) \o <<" ">>],
     [title |-> Rep("y", TitleLimit + 1)]}

\* The chat ids a request may name: those of the chats stored, the one the
\* session has bound (its chat may be gone), and one that no chat has.
ChatIds(s) ==
    {chats[i].id : i \in 1..Len(chats)}
        \cup ({Get(session[s], "chat_id")} \ {None})
        \cup {uuid + 1}

\* The chat ids a history request may name, None for no chat_id.
HistoryIds(s) == ChatIds(s) \cup {None}

\* What the external history store may answer.
HistoryReads ==
    {[ok |-> FALSE, rows |-> <<>>],
     [ok |-> TRUE,
      rows |-> <<[form |-> "object", type |-> "human", content |-> "q"],
                 [form |-> "json", type |-> "ai", content |-> "a"],
                 [form |-> "object", type |-> "system", content |-> "s"],
                 [form |-> "text", type |-> "", content |-> ""]>>]}

\* The webhook ids of the registry.
WebhookIds == {webhooks[i].id : i \in 1..Len(webhooks)}

\* The JSON bodies posted to /chat/send.
SendBodies ==
    {EmptyDict, [message |-> "hi"]}
        \cup {[message |-> "hi", webhook_id |-> w] :
                w \in {webhooks[i].id : i \in 1..Len(webhooks)}
                        \cup {uuid + 1, EmptyId}}

\* What the webhook may do with a relayed message.
Outcomes == {"reply", "no_reply", "timeout", "failure"}

\* The JSON bodies posted to /api/webhooks.
WebhookBodies == {[name |-> "n8n"], [name |-> "n8n", url |-> "http://a"]}

\* -------------------------------------------------------------------- Init
Init ==
    /\ files = {}
    /\ webhooks = <<>>
    /\ users = <<>>
    /\ chats = <<>>
    /\ session = [s \in Browsers |-> EmptyDict]
    /\ clock = 0
    /\ uuid = 0
    /\ req = [s \in Browsers |-> Idle]

\* ----------------------------------------------------------------- actions
\* The handler's result r becomes the state: the files are written and the
\* session cookie of s is set.  A request whose handler would read an instant
\* after MaxClock is not issued.
Apply(s, r) ==
    /\ r.clock <= MaxClock
    /\ files' = r.st.files
    /\ webhooks' = r.st.webhooks
    /\ users' = r.st.users
    /\ chats' = r.st.chats
    /\ session' = [session EXCEPT ![s] = r.sess]
    /\ clock' = r.clock
    /\ uuid' = r.uuid
    /\ UNCHANGED req

\* The same for the webhook endpoints, which use no session.
ApplyWebhook(r) ==
    /\ files' = r.st.files
    /\ webhooks' = r.st.webhooks
    /\ users' = r.st.users
    /\ chats' = r.st.chats
    /\ uuid' = r.uuid
    /\ UNCHANGED <<session, clock, req>>

Login(s, data) ==
    /\ s \in Browsers
    /\ Apply(s, login(Store, session[s], data, clock, uuid))

Logout(s) ==
    /\ s \in Browsers
    /\ Apply(s, logout(Store, session[s], clock, uuid))

ChatInterface(s) ==
    /\ s \in Browsers
    /\ Apply(s, page(Store, session[s], clock, uuid))

WebhookManagement(s) ==
    /\ s \in Browsers
    /\ Apply(s, page(Store, session[s], clock, uuid))

GetUsers(s) ==
    /\ s \in Browsers
    /\ Apply(s, get_users(Store, session[s], clock, uuid))

GetChats(s) ==
    /\ s \in Browsers
    /\ Apply(s, get_chats(Store, session[s], clock, uuid))

CreateChat(s, data) ==
    /\ s \in Browsers
    /\ Apply(s, create_chat(Store, session[s], data, clock, uuid))

UpdateChat(s, data) ==
    /\ s \in Browsers
    /\ \E chat_id \in ChatIds(s) :
          Apply(s, update_chat_endpoint(Store, session[s], chat_id, data,
                                        clock, uuid))

RenameChat(s, data) ==
    /\ s \in Browsers
    /\ \E chat_id \in ChatIds(s) :
          Apply(s, rename_chat_endpoint(Store, session[s], chat_id, data,
                                        clock, uuid))

DeleteChat(s) ==
    /\ s \in Browsers
    /\ \E chat_id \in ChatIds(s) :
          Apply(s, delete_chat_endpoint(Store, session[s], chat_id, clock, uuid))

GetChatHistory(s, db) ==
    /\ s \in Browsers
    /\ \E chat_id \in HistoryIds(s) :
          Apply(s, get_chat_history_api(Store, session[s], chat_id, db,
                                        clock, uuid))

SendMessage(s, outcome) ==
    /\ s \in Browsers
    /\ \E data \in SendBodies :
          Apply(s, send_message(Store, session[s], data, outcome, clock, uuid))

CreateWebhook(data) ==
    /\ Len(webhooks) < MaxWebhooks
    /\ uuid < MaxUuid
    /\ ApplyWebhook(create_webhook(Store, data, uuid))

DeleteWebhookLegacy ==
    /\ ApplyWebhook(delete_webhook_legacy(Store, uuid))

Next ==
    \/ \E s \in Sessions, data \in LoginBodies : Login(s, data)
    \/ \E s \in Sessions : Logout(s)
    \/ \E s \in Sessions : ChatInterface(s)
    \/ \E s \in Sessions : WebhookManagement(s)
    \/ \E s \in Sessions : GetUsers(s)
    \/ \E s \in Sessions : GetChats(s)
    \/ \E s \in Sessions, data \in CreateBodies : CreateChat(s, data)
    \/ \E s \in Sessions, data \in UpdateBodies : UpdateChat(s, data)
    \/ \E s \in Sessions, data \in RenameBodies : RenameChat(s, data)
    \/ \E s \in Sessions : DeleteChat(s)
    \/ \E s \in Sessions, db \in HistoryReads : GetChatHistory(s, db)
    \/ \E s \in Sessions, outcome \in Outcomes : SendMessage(s, outcome)
    \/ \E data \in WebhookBodies : CreateWebhook(data)
    \/ DeleteWebhookLegacy

Spec == Init /\ [][Next]_vars

\* ------------------------------------------------------ step-wise requests
\* The login and chat-creation handlers taken one file access at a time, so
\* that the requests of two browser sessions interleave.  Each read returns
\* the file as it is at that step and each write replaces the whole file.
\* Here datetime.now() is read at the step that stamps a record.

\* The usernames and titles the step-wise requests carry.
StepLoginBodies ==
    {[username |-> <<"a", "l">>], [username |-> <<" ", "b", "o", " ">>]}

StepCreateBodies == {EmptyDict, [title |-> <<"h", "i">>]}

\* A request in flight: where it stands and its local variables.
InFlight(pc, sess, username, title) ==
    [pc |-> pc, sess |-> sess, username |-> username, title |-> title,
     users_read |-> <<>>, existing_user |-> NoUser, chats_read |-> <<>>,
     chat |-> NoChat]

\* The files after a step that called ensure_data_file and wrote nothing.
Touch(e) ==
    /\ files' = e.files
    /\ webhooks' = e.webhooks
    /\ users' = e.users
    /\ chats' = e.chats

\* POST /login arrives (lines 237-243 passed); add_user is entered.
StartLogin(b, data) ==
    /\ req[b] = Idle
    /\ clock < MaxClock
    /\ "username" \in DOMAIN data
    /\ Len(strip(data.username)) >= MinUsername
    /\ req' = [req EXCEPT ![b] =
                InFlight("add_user_read", session[b], strip(data.username), <<>>)]
    /\ UNCHANGED <<files, webhooks, users, chats, session, clock, uuid>>

\* add_user, line 102: users = read_users()
AddUserRead(b) ==
    /\ req[b].pc = "add_user_read"
    /\ LET e == ensure_data_file(Store)
       IN  /\ Touch(e)
           /\ req' = [req EXCEPT ![b].users_read = e.users,
                                 ![b].pc = "add_user_find"]
    /\ UNCHANGED <<session, clock, uuid>>

\* add_user, line 105: existing_user = get_user_by_username(username)
AddUserFind(b) ==
    /\ req[b].pc = "add_user_find"
    /\ LET e == ensure_data_file(Store)
       IN  /\ Touch(e)
           /\ req' = [req EXCEPT
                ![b].existing_user = get_user_by_username(e.users, req[b].username),
                ![b].pc = "add_user_write"]
    /\ UNCHANGED <<session, clock, uuid>>

\* add_user, lines 106-122: the list read at line 102 is changed and written.
AddUserWrite(b) ==
    /\ req[b].pc = "add_user_write"
    /\ LET e == ensure_data_file(Store)
           r == req[b]
       IN  /\ files' = e.files
           /\ webhooks' = e.webhooks
           /\ chats' = e.chats
           /\ users' = add_user_list(r.users_read, r.existing_user, r.username,
                                     clock, uuid)
           /\ clock' = add_user_clock(r.users_read, r.existing_user, r.username,
                                      clock)
           /\ uuid' = add_user_uuid(r.existing_user, uuid)
    /\ req' = [req EXCEPT ![b].pc = "add_user_return"]
    /\ UNCHANGED session

\* add_user, line 123, and login, lines 249-250: the user is read back and
\* bound to the session.
AddUserReturn(b) ==
    /\ req[b].pc = "add_user_return"
    /\ LET e    == ensure_data_file(Store)
           user == get_user_by_username(e.users, req[b].username)
       IN  /\ Touch(e)
           /\ user.id # None
           /\ req' = [req EXCEPT
                ![b].sess = Put(Put(@, "username", req[b].username),
                                "user_id", user.id),
                ![b].pc = "login_chats"]
    /\ UNCHANGED <<session, clock, uuid>>

\* The same when the user written is gone again: add_user returns None and
\* line 250 raises after line 249 has set session['username'].  The request
\* ends with an error; the session cookie is saved with the response or not,
\* as the server's error handling has it.
AddUserLost(b, saved) ==
    /\ req[b].pc = "add_user_return"
    /\ LET e == ensure_data_file(Store)
       IN  /\ Touch(e)
           /\ get_user_by_username(e.users, req[b].username).id = None
    /\ session' = [session EXCEPT ![b] =
                    IF saved THEN Put(req[b].sess, "username", req[b].username)
                    ELSE @]
    /\ req' = [req EXCEPT ![b] = Idle]
    /\ UNCHANGED <<clock, uuid>>

\* login, lines 253-263: the user's chats are read; the latest is bound, or
\* create_new_chat is entered.
LoginChats(b) ==
    /\ req[b].pc = "login_chats"
    /\ LET e == ensure_data_file(Store)
           user_chats == get_user_chats(e.chats, req[b].sess.user_id)
       IN  /\ Touch(e)
           /\ IF user_chats = <<>>
              THEN /\ req' = [req EXCEPT ![b].pc = "create_read"]
                   /\ UNCHANGED session
              ELSE /\ req' = [req EXCEPT ![b] = Idle]
                   /\ session' = [session EXCEPT ![b] =
                                    bind_chat(req[b].sess, latest_chat(user_chats))]
    /\ UNCHANGED <<clock, uuid>>

\* POST /api/chats arrives from a logged-in session (lines 309-314 passed);
\* create_new_chat is entered.
StartCreate(b, data) ==
    /\ req[b] = Idle
    /\ clock < MaxClock
    /\ login_required(session[b])
    /\ Get(session[b], "user_id") # None
    /\ req' = [req EXCEPT ![b] =
                InFlight("create_read", session[b], session[b].username,
                         IF "title" \in DOMAIN data THEN data.title ELSE <<>>)]
    /\ UNCHANGED <<files, webhooks, users, chats, session, clock, uuid>>

\* create_new_chat, line 157: chats = read_chats()
CreateRead(b) ==
    /\ req[b].pc = "create_read"
    /\ LET e == ensure_data_file(Store)
       IN  /\ Touch(e)
           /\ req' = [req EXCEPT ![b].chats_read = e.chats,
                                 ![b].pc = "create_count"]
    /\ UNCHANGED <<session, clock, uuid>>

\* create_new_chat, lines 160-177: the user's chats are counted for the title
\* (line 164 reads the file again) and the new record is made.
CreateCount(b) ==
    /\ req[b].pc = "create_count"
    /\ LET e == ensure_data_file(Store)
           count == Len(get_user_chats(e.chats, req[b].sess.user_id))
       IN  /\ Touch(e)
           /\ req' = [req EXCEPT
                ![b].chat = new_chat(count, req[b].sess.user_id, req[b].title,
                                     clock, uuid),
                ![b].pc = "create_write"]
    /\ clock' = clock + 1
    /\ uuid' = uuid + 2
    /\ UNCHANGED session

\* A mutant of CreateWrite: the chat is appended to the file as it is at the
\* write, not to the list read at line 157.
CreateWriteCurrent(b) ==
    /\ req[b].pc = "create_write"
    /\ LET e == ensure_data_file(Store)
       IN  /\ files' = e.files
           /\ webhooks' = e.webhooks
           /\ users' = e.users
           /\ chats' = Append(e.chats, req[b].chat)
    /\ session' = [session EXCEPT ![b] = bind_chat(req[b].sess, req[b].chat)]
    /\ req' = [req EXCEPT ![b] = Idle]
    /\ UNCHANGED <<clock, uuid>>

\* create_new_chat, lines 179-180, and the caller's binding of the new chat:
\* the list read at line 157 is appended to and written.
CreateWrite(b) ==
    /\ req[b].pc = "create_write"
    /\ LET e == ensure_data_file(Store)
       IN  /\ files' = e.files
           /\ webhooks' = e.webhooks
           /\ users' = e.users
           /\ chats' = Append(req[b].chats_read, req[b].chat)
    /\ session' = [session EXCEPT ![b] = bind_chat(req[b].sess, req[b].chat)]
    /\ req' = [req EXCEPT ![b] = Idle]
    /\ UNCHANGED <<clock, uuid>>

\* The title the step-wise renames give.
StepTitle == <<"r", "e">>

\* PUT /api/chats/<chat_id>/rename arrives from a logged-in session; the chat
\* is read and is the session user's (lines 363-384 passed); update_chat is
\* entered.
StartRename(b) ==
    /\ req[b] = Idle
    /\ clock < MaxClock
    /\ login_required(session[b])
    /\ Get(session[b], "user_id") # None
    /\ \E chat_id \in ChatIds(b) :
        LET e    == ensure_data_file(Store)
            chat == get_chat_by_id(e.chats, chat_id)
        IN  /\ Touch(e)
            /\ chat.id # None
            /\ ~not_owner(chat, session[b].user_id)
            /\ req' = [req EXCEPT ![b] =
                         [InFlight("update_read", session[b], session[b].username,
                                   StepTitle) EXCEPT !.chat = chat]]
    /\ UNCHANGED <<session, clock, uuid>>

\* update_chat, line 186: chats = read_chats()
UpdateRead(b) ==
    /\ req[b].pc = "update_read"
    /\ LET e == ensure_data_file(Store)
       IN  /\ Touch(e)
           /\ req' = [req EXCEPT ![b].chats_read = e.chats,
                                 ![b].pc = "update_write"]
    /\ UNCHANGED <<session, clock, uuid>>

\* update_chat, lines 188-196: the chat is changed in the list read at line
\* 186 and the list is written; nothing is written when the list read does
\* not hold the chat.
UpdateWrite(b) ==
    /\ req[b].pc = "update_write"
    /\ LET e  == ensure_data_file(Store)
           uc == update_chat(req[b].chats_read, req[b].chat.id,
                             [title |-> req[b].title], clock)
       IN  /\ files' = e.files
           /\ webhooks' = e.webhooks
           /\ users' = e.users
           /\ chats' = IF uc.chat.id = None THEN e.chats ELSE uc.chats
           /\ clock' = uc.clock
    /\ req' = [req EXCEPT ![b] = Idle]
    /\ UNCHANGED <<session, uuid>>

NextSteps ==
    \/ \E b \in Browsers, data \in StepLoginBodies : StartLogin(b, data)
    \/ \E b \in Browsers : AddUserRead(b)
    \/ \E b \in Browsers : AddUserFind(b)
    \/ \E b \in Browsers : AddUserWrite(b)
    \/ \E b \in Browsers : AddUserReturn(b)
    \/ \E b \in Browsers, saved \in BOOLEAN : AddUserLost(b, saved)
    \/ \E b \in Browsers : LoginChats(b)
    \/ \E b \in Browsers, data \in StepCreateBodies : StartCreate(b, data)
    \/ \E b \in Browsers : CreateRead(b)
    \/ \E b \in Browsers : CreateCount(b)
    \/ \E b \in Browsers : CreateWrite(b)
    \/ \E b \in Browsers : StartRename(b)
    \/ \E b \in Browsers : UpdateRead(b)
    \/ \E b \in Browsers : UpdateWrite(b)

\* The runs in which the requests of the browser sessions interleave.
SpecSteps == Init /\ [][NextSteps]_vars

\* ------------------------------------------------------- history requests
\* The history endpoint over every short sequence of rows the external store
\* may hold for the session; req holds the answer on its way to the browser.

\* The longest sequence of rows read.
MaxRows == 3

\* The rows of n8n_chat_histories by their message column: an object of type
\* human, ai or system, an object with no type, a string of JSON that parses
\* to an object, a string of JSON that parses to a list, and a string that is
\* not JSON.
RowKinds ==
    {[form |-> "object", type |-> "human", content |-> "q"],
     [form |-> "object", type |-> "ai", content |-> "a"],
     [form |-> "object", type |-> "system", content |-> "s"],
     [form |-> "object", type |-> "", content |-> "n"],
     [form |-> "json", type |-> "ai", content |-> "j"],
     [form |-> "json_list", type |-> "", content |-> ""],
     [form |-> "text", type |-> "", content |-> ""]}

\* The sequences of at most MaxRows rows.
RowSequences == UNION {[1..n -> RowKinds] : n \in 0..MaxRows}

\* The login that binds a chat to the session fetching the history.
HistoryLogin(s) ==
    /\ s \in Sessions
    /\ req[s] = Idle
    /\ Login(s, [username |-> <<"a", "l">>])

\* GET /api/chat/history with no chat_id, the store holding rows for the
\* session; the answer is on its way.
FetchHistory(s, rows) ==
    /\ s \in Sessions
    /\ req[s] = Idle
    /\ LET r == get_chat_history_api(Store, session[s], None,
                                     [ok |-> TRUE, rows |-> rows], clock, uuid)
       IN  /\ r.status = 200
           /\ r.note = "history"
           /\ files' = r.st.files
           /\ webhooks' = r.st.webhooks
           /\ users' = r.st.users
           /\ chats' = r.st.chats
           /\ session' = [session EXCEPT ![s] = r.sess]
           /\ req' = [req EXCEPT ![s] =
                        [pc |-> "answered", rows |-> rows, history |-> r.hist,
                         body |-> r.body]]
    /\ UNCHANGED <<clock, uuid>>

\* The browser has the answer.
ReceiveHistory(s) ==
    /\ s \in Sessions
    /\ req[s].pc = "answered"
    /\ req' = [req EXCEPT ![s] = Idle]
    /\ UNCHANGED <<files, webhooks, users, chats, session, clock, uuid>>

NextHistory ==
    \/ \E s \in Sessions : HistoryLogin(s)
    \/ \E s \in Sessions, rows \in RowSequences : FetchHistory(s, rows)
    \/ \E s \in Sessions : ReceiveHistory(s)

\* The runs of logins and history fetches.
SpecHistory == Init /\ [][NextHistory]_vars

\* ------------------------------------------------------- webhook registry
\* The webhook endpoints by themselves.  They take no session and read and
\* write only webhooks.json, which no other endpoint writes, so the registry
\* goes through the same states here as in the whole application; the
\* registry may grow larger here.

\* The most webhooks the registry holds.
MaxRegistry == 2

\* The most webhook ids drawn.
MaxRegistryIds == 3

\* The JSON bodies put to /api/webhooks/<webhook_id>.
UpdateWebhookBodies ==
    {EmptyDict, [note |-> "x"], [name |-> "n8n2"], [url |-> "http://d"]}

\* The JSON bodies posted to /api/webhook.
LegacyBodies ==
    {EmptyDict, [webhook_url |-> "http://b"], [webhook_url |-> "http://c"]}

\* The ids a webhook request may name: those of the registry and one that no
\* webhook has.
WebhookIdsNamed == WebhookIds \cup {uuid + 1}

GetWebhooks ==
    /\ ApplyWebhook(get_webhooks(Store, uuid))

AddWebhook(data) ==
    /\ Len(webhooks) < MaxRegistry
    /\ uuid < MaxRegistryIds
    /\ ApplyWebhook(create_webhook(Store, data, uuid))

UpdateWebhook(webhook_id, data) ==
    /\ ApplyWebhook(update_webhook(Store, webhook_id, data, uuid))

DeleteWebhook(webhook_id) ==
    /\ ApplyWebhook(delete_webhook(Store, webhook_id, uuid))

GetWebhook ==
    /\ ApplyWebhook(get_webhook(Store, uuid))

UpdateWebhookLegacy(data) ==
    /\ webhooks = <<>> => uuid < MaxRegistryIds
    /\ ApplyWebhook(update_webhook_legacy(Store, data, uuid))

NextWebhooks ==
    \/ GetWebhooks
    \/ \E data \in WebhookBodies : AddWebhook(data)
    \/ \E webhook_id \in WebhookIdsNamed, data \in UpdateWebhookBodies :
          UpdateWebhook(webhook_id, data)
    \/ \E webhook_id \in WebhookIdsNamed : DeleteWebhook(webhook_id)
    \/ GetWebhook
    \/ \E data \in LegacyBodies : UpdateWebhookLegacy(data)
    \/ DeleteWebhookLegacy

\* The runs of the webhook endpoints.
SpecWebhooks == Init /\ [][NextWebhooks]_vars

\* ------------------------------------------------------------ data files
\* The initialization step over every combination of the three documents
\* existing or not, as the data directory may be found when the application
\* starts: after an upgrade from a version that kept fewer documents, or
\* after a document was removed by hand.

\* Records the documents found may hold.
FoundUsers ==
    <<[id |-> 1, username |-> <<"a", "l">>, created_at |-> 1, last_login |-> 1],
      [id |-> 2, username |-> <<"b", "o">>, created_at |-> 2, last_login |-> 2]>>

FoundChats ==
    <<[id |-> 4, user_id |-> 1, session_id |-> 3, title |-> AutoTitle(1, 1),
       created_at |-> 1, updated_at |-> 1],
      [id |-> 6, user_id |-> 2, session_id |-> 5, title |-> AutoTitle(1, 2),
       created_at |-> 2, updated_at |-> 2]>>

FoundWebhooks ==
    <<[id |-> 7, name |-> "n8n", url |-> "http://a"],
      [id |-> 8, name |-> "n8n2", url |-> "http://b"]>>

\* The contents a document found may have: none, either or both of two
\* records.
Documents(records) ==
    {<<>>, <<records[1]>>, <<records[2]>>, records}

\* The data directory as found: each document exists or not; one that does
\* not exist has no records.
InitFiles ==
    /\ files \in SUBSET FileNames
    /\ webhooks \in (IF "webhooks" \in files THEN Documents(FoundWebhooks) ELSE {<<>>})
    /\ users \in (IF "users" \in files THEN Documents(FoundUsers) ELSE {<<>>})
    /\ chats \in (IF "chats" \in files THEN Documents(FoundChats) ELSE {<<>>})
    /\ session = [s \in Browsers |-> EmptyDict]
    /\ clock = 2
    /\ uuid = 8
    /\ req = [s \in Browsers |-> Idle]

\* The first requests a browser makes to the webhook endpoints; each reads
\* the registry, and read_webhooks runs ensure_data_file.
NextFiles ==
    \/ GetWebhooks
    \/ GetWebhook

\* The runs from a data directory as found.
SpecFiles == InitFiles /\ [][NextFiles]_vars

\* ------------------------------------------------- two browser sessions
\* Requests of two browser sessions handled one at a time: logins of one
\* user, chat creations, deletions and logouts.

\* The username both browsers log in with.
SharedLogin == [username |-> <<"a", "l">>]

NextShared ==
    \/ \E s \in Browsers : Login(s, SharedLogin)
    \/ \E s \in Browsers : CreateChat(s, EmptyDict)
    \/ \E s \in Browsers : DeleteChat(s)
    \/ \E s \in Browsers : Logout(s)

\* The runs of one user in two browser sessions.
SpecShared == Init /\ [][NextShared]_vars

\* ------------------------------------------------------------------ claims
\* A session is Authenticated when login_required lets its requests through.
Authenticated(sess) == "username" \in DOMAIN sess

Anonymous_(sess) == ~Authenticated(sess)

\* The chats stored.
ChatSet == {chats[i] : i \in 1..Len(chats)}

\* C1: for an authenticated session and a stored chat of another user, a
\* rename, a delete and a history fetch naming that chat each answer 403 and
\* leave the chats collection and the session as they were.
C1_ForbiddenNoMutation ==
    \A s \in Sessions : \A c \in ChatSet :
        LET sess == session[s] IN
        (Authenticated(sess) /\ c.user_id # Get(sess, "user_id")) =>
            /\ \A data \in RenameBodies :
                  LET r == rename_chat_endpoint(Store, sess, c.id, data, clock, uuid)
                  IN  r.status = 403 /\ r.st.chats = chats /\ r.sess = sess
            /\ LET r == delete_chat_endpoint(Store, sess, c.id, clock, uuid)
               IN  r.status = 403 /\ r.st.chats = chats /\ r.sess = sess
            /\ \A db \in HistoryReads :
                  LET r == get_chat_history_api(Store, sess, c.id, db, clock, uuid)
                  IN  r.status = 403 /\ r.st.chats = chats /\ r.sess = sess

\* C1's case: a session is authenticated and a chat of another user is stored.
C1_Witness ==
    \E s \in Sessions : \E c \in ChatSet :
        Authenticated(session[s]) /\ c.user_id # Get(session[s], "user_id")

\* C2: without a session the page routes redirect to /login and the API
\* routes answer 401.
C2_ApiAnswers401 ==
    \A s \in Sessions :
        LET sess == session[s] IN
        Anonymous_(sess) =>
            /\ page(Store, sess, clock, uuid).status = 302
            /\ get_users(Store, sess, clock, uuid).status = 401
            /\ get_chats(Store, sess, clock, uuid).status = 401
            /\ \A data \in CreateBodies :
                  create_chat(Store, sess, data, clock, uuid).status = 401
            /\ \A db \in HistoryReads :
                  get_chat_history_api(Store, sess, None, db, clock, uuid).status = 401
            /\ \A data \in SendBodies, outcome \in Outcomes :
                  send_message(Store, sess, data, outcome, clock, uuid).status = 401

\* A response that changes no chat, no binding of the session, and posts
\* nothing to a webhook.
Untouched(r, sess) == r.st.chats = chats /\ r.sess = sess /\ r.post = <<>>

\* C3: a session is Anonymous until its first successful login and from each
\* logout to the next successful login; an Anonymous session's requests to the
\* chat endpoints and to message send change no chat and no binding of the
\* session and post nothing to a webhook.
C3_AnonymousChangesNothing ==
    \A s \in Sessions :
        LET sess == session[s] IN
        /\ ("user_id" \notin DOMAIN sess) => Anonymous_(sess)
        /\ Anonymous_(logout(Store, sess, clock, uuid).sess)
        /\ Anonymous_(sess) =>
            /\ \A data \in LoginBodies :
                  LET r == login(Store, sess, data, clock, uuid)
                  IN  r.status # 200 => r.sess = sess
            /\ Untouched(get_chats(Store, sess, clock, uuid), sess)
            /\ \A data \in CreateBodies :
                  Untouched(create_chat(Store, sess, data, clock, uuid), sess)
            /\ \A data \in UpdateBodies, chat_id \in ChatIds(s) :
                  Untouched(update_chat_endpoint(Store, sess, chat_id, data,
                                                 clock, uuid), sess)
            /\ \A data \in RenameBodies, chat_id \in ChatIds(s) :
                  Untouched(rename_chat_endpoint(Store, sess, chat_id, data,
                                                 clock, uuid), sess)
            /\ \A chat_id \in ChatIds(s) :
                  Untouched(delete_chat_endpoint(Store, sess, chat_id,
                                                 clock, uuid), sess)
            /\ \A db \in HistoryReads, chat_id \in HistoryIds(s) :
                  Untouched(get_chat_history_api(Store, sess, chat_id, db,
                                                 clock, uuid), sess)
            /\ \A data \in SendBodies, outcome \in Outcomes :
                  Untouched(send_message(Store, sess, data, outcome,
                                         clock, uuid), sess)

\* C3's case: a session that logged out still holds the user_id and the chat
\* bindings of a user whose chat is stored, and a webhook is configured.
C3_Witness ==
    \E s \in Sessions : \E c \in ChatSet :
        /\ Anonymous_(session[s])
        /\ Get(session[s], "user_id") = c.user_id
        /\ Get(session[s], "chat_id") = c.id
        /\ webhooks # <<>>

\* C4: in every reachable state, also of the runs that interleave the reads
\* and writes of concurrent logins and chat creations, every stored chat has
\* the user_id of a stored user.
C4_ChatsReferenceUsers ==
    \A c \in ChatSet : \E i \in 1..Len(users) : users[i].id = c.user_id

\* Two usernames that are equal ignoring case.
SameIgnoringCase(a, b) == lower(a) = lower(b)

\* No two user records have usernames equal ignoring case.
NoCaseDuplicates ==
    \A i, j \in 1..Len(users) :
        i # j => ~SameIgnoringCase(users[i].username, users[j].username)

\* Two logins whose usernames differ only in case bind the same user id.
SameUserForBothSpellings ==
    \A s \in Sessions : \A d1, d2 \in LoginBodies :
        ("username" \in DOMAIN d1 /\ "username" \in DOMAIN d2
            /\ SameIgnoringCase(d1.username, d2.username)) =>
        LET r1 == login(Store, session[s], d1, clock, uuid)
            r2 == login(r1.st, r1.sess, d2, r1.clock, r1.uuid)
        IN  r1.status = 200 =>
                r2.status = 200 /\ r2.sess.user_id = r1.sess.user_id

\* A login changes no user record but the last_login of the user logging in,
\* and adds a record only when no record has the name.
LoginKeepsUsers ==
    \A s \in Sessions : \A data \in LoginBodies :
        LET r == login(Store, session[s], data, clock, uuid) IN
        r.status = 200 =>
            /\ Len(r.st.users) >= Len(users)
            /\ (\E i \in 1..Len(users) :
                    SameIgnoringCase(users[i].username, strip(data.username)))
                  => Len(r.st.users) = Len(users)
            /\ \A i \in 1..Len(users) :
                  \/ r.st.users[i] = users[i]
                  \/ /\ SameIgnoringCase(users[i].username, strip(data.username))
                     /\ r.st.users[i] =
                            [users[i] EXCEPT !.last_login = r.st.users[i].last_login]

\* No step removes a user record or changes its id, username or created_at.
UsersKept ==
    \A i \in 1..Len(users) :
        /\ i <= Len(users')
        /\ users'[i].id = users[i].id
        /\ users'[i].username = users[i].username
        /\ users'[i].created_at = users[i].created_at

\* C5: no two user records have usernames equal ignoring case; two logins
\* whose usernames differ only in case bind the same user id; a repeat login
\* changes only that user's last_login, and no user record is ever removed.
C5_CaseInsensitiveUpsert ==
    /\ [](NoCaseDuplicates /\ SameUserForBothSpellings /\ LoginKeepsUsers)
    /\ [][UsersKept]_vars

\* C5's case: with two users stored, one has logged in again under another
\* spelling of its name.
C5_Witness ==
    \E s \in Sessions : \E i \in 1..Len(users) :
        /\ Len(users) = 2
        /\ Authenticated(session[s])
        /\ session[s].user_id = users[i].id
        /\ session[s].username # users[i].username
        /\ users[i].last_login > users[i].created_at

\* A string of whitespace only (the empty string too).
Blank(str) == \A i \in 1..Len(str) : str[i] \in Whitespace

\* A string with more than n characters from its first to its last
\* non-whitespace character.
TrimmedLongerThan(str, n) ==
    \E i \in 1..Len(str) : \E j \in (i + n)..Len(str) :
        str[i] \notin Whitespace /\ str[j] \notin Whitespace

\* C6: a rename of an own chat to a title that is empty once trimmed, or
\* longer than 100 characters once trimmed, answers 400 and changes no chat.
C6_RenameRejected ==
    \A s \in Sessions : \A c \in ChatSet : \A data \in RenameBodies :
        LET sess == session[s] IN
        (/\ Authenticated(sess) /\ c.user_id = Get(sess, "user_id")
         /\ "title" \in DOMAIN data
         /\ (Blank(data.title) \/ TrimmedLongerThan(data.title, TitleLimit))) =>
            LET r == rename_chat_endpoint(Store, sess, c.id, data, clock, uuid)
            IN  r.status = 400 /\ r.st.chats = chats /\ r.clock = clock

\* C6's case: an authenticated session owns a chat with a title in use, and
\* the inputs hold a blank title and one of 101 characters.
C6_Witness ==
    /\ \E s \in Sessions : \E c \in ChatSet :
          /\ Authenticated(session[s]) /\ c.user_id = session[s].user_id
          /\ ~Blank(c.title) /\ ~TrimmedLongerThan(c.title, TitleLimit)
    /\ \E d1, d2 \in RenameBodies :
          /\ "title" \in DOMAIN d1 /\ Blank(d1.title)
          /\ "title" \in DOMAIN d2 /\ TrimmedLongerThan(d2.title, TitleLimit)

\* C7: every stored chat's title has at most 100 characters.
C7_TitlesWithinLimit == \A c \in ChatSet : Len(c.title) <= TitleLimit

\* No step changes the id, user_id, session_id or created_at of a chat.
ChatsKeepIdentity ==
    \A i \in 1..Len(chats), j \in 1..Len(chats') :
        chats[i].id = chats'[j].id =>
            /\ chats'[j].user_id = chats[i].user_id
            /\ chats'[j].session_id = chats[i].session_id
            /\ chats'[j].created_at = chats[i].created_at

\* No two stored chats share an id or a session_id.
UniqueSessionIds ==
    \A i, j \in 1..Len(chats) :
        i # j => chats[i].id # chats[j].id
                 /\ chats[i].session_id # chats[j].session_id

\* A message send from a session with a chat bound, when it gets as far as
\* the relay, changes the updated_at of the bound chat and nothing else of the
\* chats collection.
TouchChangesUpdatedAtOnly ==
    \A s \in Sessions, data \in SendBodies, outcome \in Outcomes :
        LET sess == session[s]
            r == send_message(Store, sess, data, outcome, clock, uuid)
        IN  (Authenticated(sess) /\ "chat_id" \in DOMAIN sess /\ r.post # <<>>) =>
                /\ Len(r.st.chats) = Len(chats)
                /\ \A i \in 1..Len(chats) :
                      IF chats[i].id = sess.chat_id
                      THEN /\ r.st.chats[i] =
                                [chats[i] EXCEPT !.updated_at = r.clock]
                           /\ r.clock > chats[i].updated_at
                      ELSE r.st.chats[i] = chats[i]

\* C8: a chat's id, user_id, session_id and created_at never change while it
\* is stored; no two chats share a session_id; the touch of a message send
\* changes only the updated_at of the touched chat.
C8_ChatIdentity ==
    /\ [](UniqueSessionIds /\ TouchChangesUpdatedAtOnly)
    /\ [][ChatsKeepIdentity]_vars

\* C8's case: of two stored chats the one bound to an authenticated session
\* has been touched by a send (its automatic title is kept, its updated_at is
\* later than its created_at).
C8_Witness ==
    \E s \in Sessions : \E c \in ChatSet :
        /\ Len(chats) >= 2
        /\ Authenticated(session[s])
        /\ Get(session[s], "chat_id") = c.id
        /\ c.updated_at > c.created_at
        /\ c.title = AutoTitle(1, c.created_at)

\* A session with no active chat bound.
NoBinding(sess) == "chat_id" \notin DOMAIN sess /\ "session_id" \notin DOMAIN sess

\* What a history fetch with no chat_id answers when no chat is bound.
NoActiveChat(r) ==
    r.status = 200 /\ r.note = "No active chat found." /\ r.hist = <<>>

\* C9 as amended: when an authenticated session deletes its active chat, its
\* chat_id and session_id bindings are cleared, and while it stays
\* authenticated and none is bound again (by a login, a chat creation, a
\* switch or a send) a history fetch with no chat_id answers an empty history
\* with "No active chat found."; no other request of the session binds one;
\* deleting a chat that is not the active one leaves the session unchanged.
C9_DeleteActiveClears ==
    \A s \in Sessions :
        LET sess == session[s] IN
        Authenticated(sess) =>
            /\ \A c \in ChatSet :
                  c.user_id = Get(sess, "user_id") =>
                    LET r == delete_chat_endpoint(Store, sess, c.id, clock, uuid)
                    IN  /\ r.status = 200
                        /\ IF Get(sess, "chat_id") = c.id
                           THEN NoBinding(r.sess) /\ Authenticated(r.sess)
                           ELSE r.sess = sess
            /\ NoBinding(sess) =>
                /\ \A db \in HistoryReads :
                      LET r == get_chat_history_api(Store, sess, None, db, clock, uuid)
                      IN  NoActiveChat(r) /\ r.sess = sess
                /\ page(Store, sess, clock, uuid).sess = sess
                /\ get_users(Store, sess, clock, uuid).sess = sess
                /\ get_chats(Store, sess, clock, uuid).sess = sess
                /\ \A chat_id \in ChatIds(s) :
                      /\ delete_chat_endpoint(Store, sess, chat_id, clock, uuid).sess = sess
                      /\ \A data \in RenameBodies :
                            rename_chat_endpoint(Store, sess, chat_id, data,
                                                 clock, uuid).sess = sess
                      /\ \A data \in UpdateBodies :
                            "action" \notin DOMAIN data =>
                                update_chat_endpoint(Store, sess, chat_id, data,
                                                     clock, uuid).sess = sess
                      /\ \A db \in HistoryReads :
                            get_chat_history_api(Store, sess, chat_id, db,
                                                 clock, uuid).sess = sess

\* C9's case: an authenticated session that has deleted its active chat (it
\* has a user_id and no chat bound), with another chat of its user left.
C9_Witness ==
    \E s \in Sessions : \E c \in ChatSet :
        /\ Authenticated(session[s])
        /\ NoBinding(session[s])
        /\ c.user_id = session[s].user_id

\* C9 as stated: a session has a user_id and no chat bound exactly when it
\* deleted its active chat and no login, chat creation, switch or send
\* followed; the history fetch with no chat_id that comes next is to answer
\* "No active chat found.".
C9_NextFetchNoActiveChat ==
    \A s \in Sessions :
        LET sess == session[s] IN
        ("user_id" \in DOMAIN sess /\ NoBinding(sess)) =>
            \A db \in HistoryReads :
                NoActiveChat(get_chat_history_api(Store, sess, None, db, clock, uuid))

\* The chats of user_id in a chat list, as a set.
ChatsOf(chatlist, user_id) ==
    {chatlist[i] : i \in {j \in 1..Len(chatlist) : chatlist[j].user_id = user_id}}

\* A successful login of a user with no chat creates exactly one chat, owned
\* by the user, and binds it; a login of a user with chats creates none and
\* binds one of the user's chats with the greatest updated_at.
LoginBindsLatest ==
    \A s \in Sessions : \A data \in LoginBodies :
        LET r == login(Store, session[s], data, clock, uuid) IN
        r.status = 200 =>
            LET uid  == r.sess.user_id
                mine == ChatsOf(chats, uid)
            IN  IF mine = {}
                THEN /\ Len(r.st.chats) = Len(chats) + 1
                     /\ SubSeq(r.st.chats, 1, Len(chats)) = chats
                     /\ r.st.chats[Len(chats) + 1].user_id = uid
                     /\ r.sess.chat_id = r.st.chats[Len(chats) + 1].id
                     /\ r.sess.session_id = r.st.chats[Len(chats) + 1].session_id
                ELSE /\ r.st.chats = chats
                     /\ \E c \in mine :
                          /\ r.sess.chat_id = c.id
                          /\ r.sess.session_id = c.session_id
                          /\ \A d \in mine : d.updated_at <= c.updated_at

\* The chat a request has just created, renamed or sent to has an updated_at
\* later than that of every other stored chat, so the greatest updated_at is
\* that of the chat used last.
LastUsedIsLatest ==
    /\ \A c \in ChatSet : c.updated_at <= clock
    /\ \A i, j \in 1..Len(chats) : i # j => chats[i].updated_at # chats[j].updated_at
    /\ \A s \in Sessions :
        LET sess == session[s] IN
        /\ \A data \in CreateBodies :
              LET r == create_chat(Store, sess, data, clock, uuid)
              IN  r.status = 201 =>
                    r.st.chats[Len(r.st.chats)].updated_at > clock
        /\ \A data \in RenameBodies, chat_id \in ChatIds(s) :
              LET r == rename_chat_endpoint(Store, sess, chat_id, data, clock, uuid)
              IN  r.status = 200 =>
                    get_chat_by_id(r.st.chats, chat_id).updated_at > clock
        /\ \A data \in UpdateBodies, chat_id \in ChatIds(s) :
              LET r == update_chat_endpoint(Store, sess, chat_id, data, clock, uuid)
              IN  (r.status = 200 /\ "title" \in DOMAIN data) =>
                    get_chat_by_id(r.st.chats, chat_id).updated_at > clock
        /\ \A data \in SendBodies, outcome \in Outcomes :
              LET r == send_message(Store, sess, data, outcome, clock, uuid)
              IN  (r.post # <<>> /\ get_chat_by_id(r.st.chats, r.sess.chat_id).id # None)
                    => get_chat_by_id(r.st.chats, r.sess.chat_id).updated_at > clock

\* C10: a successful login of a user who owns no chat creates exactly one chat
\* for the user and binds it; otherwise it creates none and binds a chat of
\* the user whose updated_at is the greatest among the user's chats, which is
\* the chat the user created, renamed or sent to last.
C10_LoginBindsLatest == LoginBindsLatest /\ LastUsedIsLatest

\* C10's case: a user with two chats has logged in after both were last used
\* (the user's last_login is the latest instant, later than every updated_at)
\* and the chat bound is the later of the two.
C10_Witness ==
    \E s \in Sessions : \E i \in 1..Len(users) : \E c, d \in ChatSet :
        /\ Authenticated(session[s])
        /\ session[s].user_id = users[i].id
        /\ users[i].last_login = clock
        /\ \A x \in ChatSet : x.updated_at < clock
        /\ c.user_id = users[i].id /\ d.user_id = users[i].id
        /\ d.updated_at < c.updated_at
        /\ session[s].chat_id = c.id

\* The outcomes of the outbound call that are not a reply.
FailedOutcomes == {"no_reply", "timeout", "failure"}

\* C11: when the outbound call of a send times out or fails, the chats
\* collection and the session's active chat binding are as they were before
\* the send request.
C11_FailedSendKeepsState ==
    \A s \in Sessions :
        LET sess == session[s] IN
        Authenticated(sess) =>
            \A data \in SendBodies, outcome \in FailedOutcomes :
                LET r == send_message(Store, sess, data, outcome, clock, uuid)
                IN  r.post # <<>> =>
                        /\ r.st.chats = chats
                        /\ Get(r.sess, "chat_id") = Get(sess, "chat_id")
                        /\ Get(r.sess, "session_id") = Get(sess, "session_id")

\* A send that is answered with an error before any call: nothing is posted,
\* the chats are as they were and so is the session.
RejectedSend(r, sess, status) ==
    r.status = status /\ Untouched(r, sess)

IdsOf(chatlist) == {chatlist[i].id : i \in 1..Len(chatlist)}

\* The write that ends a chat creation leaves the list the request read with
\* its new chat appended, whatever the file held just before the write.
CreationWritesItsCopy ==
    \A b \in Browsers :
        (req[b].pc = "create_write" /\ req'[b] = Idle) =>
            /\ Len(chats') = Len(req[b].chats_read) + 1
            /\ \A i \in 1..Len(req[b].chats_read) : chats'[i] = req[b].chats_read[i]
            /\ chats'[Len(chats')] = req[b].chat
            /\ \A c \in ChatSet :
                  c.id \notin IdsOf(req[b].chats_read) => c.id \notin IdsOf(chats')

\* The write that ends a rename leaves the list the request read with the one
\* chat retitled, whatever the file held just before the write.
RenameWritesItsCopy ==
    \A b \in Browsers :
        (req[b].pc = "update_write" /\ req'[b] = Idle
            /\ req[b].chat.id \in IdsOf(req[b].chats_read)) =>
            /\ Len(chats') = Len(req[b].chats_read)
            /\ \A i \in 1..Len(chats') :
                  IF req[b].chats_read[i].id = req[b].chat.id
                  THEN chats'[i].title = req[b].title
                  ELSE chats'[i] = req[b].chats_read[i]
            /\ \A c \in ChatSet :
                  c.id \notin IdsOf(req[b].chats_read) => c.id \notin IdsOf(chats')

\* C13: the chats collection is read whole and written whole with no lock:
\* the write of a chat creation or of a rename leaves what that request read
\* plus its own change, so what another request wrote between the read and
\* the write is gone, and a chat reported as created can be absent from the
\* store though no delete was issued.
C13_LastWriterWins ==
    [][CreationWritesItsCopy /\ RenameWritesItsCopy]_vars

\* C13's case: no request is in flight, no delete was ever issued, and a
\* session is bound to the chat its creation reported while the store does
\* not hold that chat.
C13_Witness ==
    /\ \A b \in Browsers : req[b] = Idle
    /\ \E b \in Browsers :
          /\ "chat_id" \in DOMAIN session[b]
          /\ session[b].chat_id \notin IdsOf(chats)
          /\ chats # <<>>

\* The numbers a generated title may carry.
TitleNumbers == 1..(Len(chats) + 2)

\* A chat whose title is the generated one with the number n.
Numbered(c, n) == c.title = AutoTitle(n, c.created_at)

\* A chat that still has a generated title.
AutoTitled(c) == \E n \in TitleNumbers : Numbered(c, n)

\* The place of the chat at index i among its user's chats, in the order of
\* the list, which is the order of creation.
PlaceOf(chatlist, i) ==
    Cardinality({j \in 1..i : chatlist[j].user_id = chatlist[i].user_id})

\* Every chat that has a generated title has the number of its place among
\* its user's chats.
NumberedInOrder ==
    \A i \in 1..Len(chats) :
        AutoTitled(chats[i]) => Numbered(chats[i], PlaceOf(chats, i))

\* No chat is removed by the step.
NoChatRemoved == IdsOf(chats) \subseteq IdsOf(chats')

\* C14 as amended: as long as none of the chats is deleted, the chats a user
\* creates without a title are numbered by their place in the order of
\* creation: Chat-1, Chat-2, ..., Chat-N for a user's N chats.
C14_NumberedWithoutDeletion ==
    [][(NumberedInOrder /\ NoChatRemoved) => NumberedInOrder']_vars

\* C14's case: a user has created two chats without a title, none deleted,
\* and they are Chat-1 and Chat-2 in that order.
C14_Witness ==
    \E i, j \in 1..Len(chats) :
        /\ i < j
        /\ chats[i].user_id = chats[j].user_id
        /\ Numbered(chats[i], 1)
        /\ Numbered(chats[j], 2)
        /\ PlaceOf(chats, j) = 2

\* C14 as stated: whatever was deleted in between, the numbers of a user's
\* generated titles follow the order of creation, so of two chats of one user
\* the one created later has the greater number.
C14_NumbersFollowCreation ==
    \A c, d \in ChatSet :
        (c.user_id = d.user_id /\ c.created_at < d.created_at) =>
            \A n, m \in TitleNumbers :
                (Numbered(c, n) /\ Numbered(d, m)) => n < m

\* The chat a request created: the last of the list it left.
Created(r) == r.st.chats[Len(r.st.chats)]

\* The title generated for a chat of user_id created at instant t in the
\* store as it is.
NextTitle(user_id, t) ==
    AutoTitle(1 + Cardinality(ChatsOf(chats, user_id)), t)

\* C15: a chat created without a title, by login's default chat, by POST
\* /api/chats with no title or an empty one, or by a send with no active
\* chat, gets the number 1 + the count of the chats of that user in the
\* store at that moment, whatever chats other users have.
C15_NumberIsLiveCountPlusOne ==
    \A s \in Sessions :
        LET sess == session[s] IN
        /\ \A data \in LoginBodies :
              LET r == login(Store, sess, data, clock, uuid)
              IN  (r.status = 200 /\ Len(r.st.chats) > Len(chats)) =>
                    /\ ChatsOf(chats, r.sess.user_id) = {}
                    /\ Created(r).user_id = r.sess.user_id
                    /\ Created(r).title = AutoTitle(1, Created(r).created_at)
        /\ Authenticated(sess) =>
            /\ \A data \in CreateBodies :
                  LET r == create_chat(Store, sess, data, clock, uuid)
                  IN  (r.status = 201 /\ ("title" \in DOMAIN data => data.title = <<>>)) =>
                        /\ Created(r).user_id = sess.user_id
                        /\ Created(r).title =
                              NextTitle(sess.user_id, Created(r).created_at)
            /\ \A data \in SendBodies, outcome \in Outcomes :
                  LET r == send_message(Store, sess, data, outcome, clock, uuid)
                  IN  Len(r.st.chats) > Len(chats) =>
                        /\ Created(r).user_id = sess.user_id
                        /\ Created(r).title =
                              NextTitle(sess.user_id, Created(r).created_at)

\* C15's case: a number was given again after a chat was removed: a user has
\* two chats with generated titles of the same number.
C15_Witness ==
    \E c, d \in ChatSet : \E n \in TitleNumbers :
        /\ c.user_id = d.user_id
        /\ c.id # d.id
        /\ Numbered(c, n) /\ Numbered(d, n)

\* A row whose message is an object, as stored or once its JSON is parsed.
MessageIsObject(row) == row.form \in {"object", "json"}

\* The subsequence of the rows whose message is an object of type human or
\* ai, each as {role, content}.
RECURSIVE Conversation(_)
Conversation(rows) ==
    IF rows = <<>> THEN <<>>
    ELSE LET m == Head(rows)
             entry == IF ~MessageIsObject(m) THEN <<>>
                      ELSE IF m.type = "human"
                           THEN <<[role |-> "user", content |-> m.content]>>
                      ELSE IF m.type = "ai"
                           THEN <<[role |-> "assistant", content |-> m.content]>>
                      ELSE <<>>
         IN  entry \o Conversation(Tail(rows))

\* C16: for every sequence of raw rows in ascending id order the history
\* returned is the subsequence of the rows whose message is an object of type
\* human or ai, in the same order, as role user or assistant with the content
\* carried over; rows of another type or whose message is not an object are
\* dropped without an error; total_messages is the length of the history.
C16_HistoryIsConversation ==
    \A s \in Sessions :
        req[s].pc = "answered" =>
            /\ req[s].history = Conversation(req[s].rows)
            /\ req[s].body.total_messages = Len(req[s].history)
            /\ "error" \notin DOMAIN req[s].body

\* C16's case: the rows answered hold a human message, then a system message,
\* then a string of JSON with an ai message, and the history has two entries.
C16_Witness ==
    \E s \in Sessions :
        /\ req[s].pc = "answered"
        /\ Len(req[s].rows) = 3
        /\ req[s].rows[1].type = "human"
        /\ req[s].rows[2].type = "system"
        /\ req[s].rows[3].form = "json"
        /\ Len(req[s].history) = 2

\* C17: when the read of the external history store fails, a history fetch
\* for a bound or owned chat answers 200 with the chat_id and session_id, an
\* empty history and an error field.
C17_DegradedReadReportsError ==
    \A s \in Sessions :
        LET sess == session[s] IN
        Authenticated(sess) =>
            \A db \in HistoryReads, chat_id \in HistoryIds(s) :
                LET r == get_chat_history_api(Store, sess, chat_id, db, clock, uuid)
                IN  (~db.ok /\ r.note = "history") =>
                        /\ r.status = 200
                        /\ r.hist = <<>>
                        /\ {"chat_id", "session_id", "error"} \subseteq DOMAIN r.body

\* C18: a webhook update that gives neither name nor url is answered 400 and
\* the registry is unchanged, whether or not a webhook has the id.
C18_EmptyUpdateRejected ==
    \A webhook_id \in WebhookIdsNamed, data \in UpdateWebhookBodies :
        ("name" \notin DOMAIN data /\ "url" \notin DOMAIN data) =>
            LET r == update_webhook(Store, webhook_id, data, uuid)
            IN  r.status = 400 /\ r.st = Store

\* C18's case: the registry holds webhooks, one of them renamed by an update
\* that gave a name, so that an update may name an id that exists.
C18_Witness ==
    \E i \in 1..Len(webhooks) : webhooks[i].name = "n8n2"

\* What the legacy POST does to a non-empty registry: the url of the webhook
\* at index 0 is set, its id and name and every other webhook are kept.
OnlyFirstUrlSet(before, after, url) ==
    /\ Len(after) = Len(before)
    /\ after[1] = [before[1] EXCEPT !.url = url]
    /\ \A i \in 2..Len(before) : after[i] = before[i]

\* C19: the legacy POST on an empty registry creates exactly one webhook
\* named "Default Webhook" with the url given; on a non-empty registry it
\* adds none and sets only the url of the webhook at index 0; repeating the
\* call creates no second webhook.
C19_LegacyUpsert ==
    \A data \in LegacyBodies :
        "webhook_url" \in DOMAIN data =>
            LET r == update_webhook_legacy(Store, data, uuid)
            IN  /\ r.status = 200
                /\ IF webhooks = <<>>
                   THEN /\ Len(r.st.webhooks) = 1
                        /\ r.st.webhooks[1].name = DefaultWebhook
                        /\ r.st.webhooks[1].url = data.webhook_url
                        /\ r.st.webhooks[1].id # None
                   ELSE OnlyFirstUrlSet(webhooks, r.st.webhooks, data.webhook_url)
                /\ \A again \in LegacyBodies :
                      "webhook_url" \in DOMAIN again =>
                        LET r2 == update_webhook_legacy(r.st, again, r.uuid)
                        IN  OnlyFirstUrlSet(r.st.webhooks, r2.st.webhooks,
                                            again.webhook_url)

\* C19's case: the legacy POST has set the url of the first of two webhooks
\* that were created with another url.
C19_Witness ==
    /\ Len(webhooks) = 2
    /\ webhooks[1].name # DefaultWebhook
    /\ webhooks[1].url \in {"http://b", "http://c"}
    /\ webhooks[2].url \notin {"http://b", "http://c"}

\* The legacy GET and POST work on the webhook at index 0: the GET answers its
\* url and changes no webhook, the POST changes only that webhook.
LegacyReadsAndSetsFirst ==
    /\ LET r == get_webhook(Store, uuid)
       IN  /\ r.st.webhooks = webhooks
           /\ IF webhooks = <<>> THEN r.status = 404
              ELSE r.status = 200 /\ r.webhook_url = webhooks[1].url
    /\ \A data \in LegacyBodies :
          LET r == update_webhook_legacy(Store, data, uuid)
          IN  \A i \in 2..Len(webhooks) :
                 /\ Len(r.st.webhooks) = Len(webhooks)
                 /\ r.st.webhooks[i] = webhooks[i]

\* C20 as amended: the legacy GET and POST read and change only the webhook
\* at index 0 and leave the webhooks at other positions unchanged; the legacy
\* DELETE removes every webhook of the registry.
C20_LegacyEndpoints ==
    /\ LegacyReadsAndSetsFirst
    /\ delete_webhook_legacy(Store, uuid).st.webhooks = <<>>

\* C20's case: the registry holds two webhooks.
C20_Witness ==
    /\ Len(webhooks) = 2
    /\ webhooks[1].id # webhooks[2].id

\* C20 as stated: the legacy GET, POST and DELETE each leave the webhooks at
\* the positions after the first unchanged.
C20_OnlyFirstWebhook ==
    /\ LegacyReadsAndSetsFirst
    /\ LET r == delete_webhook_legacy(Store, uuid)
       IN  \A i \in 2..Len(webhooks) :
              \E j \in 1..Len(r.st.webhooks) : r.st.webhooks[j] = webhooks[i]

\* A login body that is to be rejected: no username, or one of fewer than
\* two characters once the whitespace around it is removed.
TooShort(data) ==
    "username" \in DOMAIN data =>
        \A i, j \in 1..Len(data.username) :
            (i < j) => (data.username[i] \in Whitespace \/ data.username[j] \in Whitespace)

\* C21: a login with no username, or with one of fewer than 2 characters
\* after trimming, is answered 400; no user is created, no last_login is
\* updated, no chat is created, and the session, Anonymous or bound to an
\* identity and an active chat, is unchanged.
C21_ShortLoginRejected ==
    \A s \in Sessions : \A data \in LoginBodies :
        TooShort(data) =>
            LET r == login(Store, session[s], data, clock, uuid)
            IN  /\ r.status = 400
                /\ r.st.users = users
                /\ r.st.chats = chats
                /\ r.sess = session[s]

\* C21's case: a session bound to an identity and an active chat, and a login
\* body whose username has one character between blanks.
C21_Witness ==
    \E s \in Sessions : \E data \in LoginBodies :
        /\ Authenticated(session[s])
        /\ "chat_id" \in DOMAIN session[s]
        /\ users # <<>>
        /\ "username" \in DOMAIN data
        /\ Len(data.username) > Len(strip(data.username))
        /\ Len(strip(data.username)) = 1
        /\ TooShort(data)

\* The records of the document named in a store.
RecordsOf(st, name) ==
    CASE name = "webhooks" -> st.webhooks
      [] name = "users"    -> st.users
      [] name = "chats"    -> st.chats

\* C22: for every combination of the three documents existing or not, the
\* initialization step creates the missing ones as empty collections and
\* leaves the records of every document that exists unchanged.
C22_InitializesOnlyMissing ==
    LET e == ensure_data_file(Store)
    IN  /\ e.files = FileNames
        /\ \A name \in FileNames :
              IF name \in files
              THEN RecordsOf(e, name) = RecordsOf(Store, name)
              ELSE RecordsOf(e, name) = <<>>

\* C23: in every reachable state, for every Authenticated session with an
\* active chat bound, the bound chat_id is the id of a stored chat, that
\* chat's user_id is the session's user_id and the bound session_id is that
\* chat's session_id, also when one user is logged in from two browser
\* sessions and one of them deletes chats.
C23_BindingsReferToChats ==
    \A s \in Browsers :
        (Authenticated(session[s]) /\ "chat_id" \in DOMAIN session[s]) =>
            \E c \in ChatSet :
                /\ c.id = session[s].chat_id
                /\ c.user_id = Get(session[s], "user_id")
                /\ c.session_id = Get(session[s], "session_id")

\* C24: a send from an authenticated session with no active chat bound, once
\* a webhook is resolved, creates exactly one new chat owned by the session's
\* user, binds it and relays the message under its session_id; a send from a
\* session with an active chat bound creates no chat, keeps the binding and
\* relays under the bound session_id with the session's username.
C24_SendBindsOrKeeps ==
    \A s \in Sessions :
        LET sess == session[s] IN
        Authenticated(sess) =>
            \A data \in SendBodies, outcome \in Outcomes :
                LET r == send_message(Store, sess, data, outcome, clock, uuid)
                IN  r.post # <<>> =>
                    /\ Len(r.post) = 1
                    /\ r.post[1].username = sess.username
                    /\ r.post[1].user_message = data.message
                    /\ IF NoBinding(sess)
                       THEN /\ Len(r.st.chats) = Len(chats) + 1
                            /\ \A i \in 1..Len(chats) : r.st.chats[i] = chats[i]
                            /\ Created(r).id \notin IdsOf(chats)
                            /\ Created(r).user_id = sess.user_id
                            /\ r.sess.chat_id = Created(r).id
                            /\ r.sess.session_id = Created(r).session_id
                            /\ r.post[1].session_id = Created(r).session_id
                       ELSE /\ Len(r.st.chats) = Len(chats)
                            /\ \A i \in 1..Len(chats) : r.st.chats[i].id = chats[i].id
                            /\ r.sess = sess
                            /\ r.post[1].session_id = sess.session_id

\* C24's case: an authenticated session that deleted its active chat, with a
\* webhook in the registry, whose send is relayed and leaves one chat more.
C24_Witness ==
    \E s \in Sessions :
        /\ Authenticated(session[s])
        /\ NoBinding(session[s])
        /\ webhooks # <<>>
        /\ LET r == send_message(Store, session[s], [message |-> "hi"], "reply",
                                 clock, uuid)
           IN  r.status = 200 /\ Len(r.st.chats) = Len(chats) + 1

\* The list after is the list before without its item at position k, the
\* others in their order.
RemovedAt(before, after, k) ==
    /\ Len(after) = Len(before) - 1
    /\ \A i \in 1..(k - 1) : after[i] = before[i]
    /\ \A i \in k..Len(after) : after[i] = before[i + 1]

\* The list after is the list before with only the fields given in data
\* changed in its item at position k.
UpdatedAt(before, after, k, data) ==
    /\ Len(after) = Len(before)
    /\ \A i \in 1..Len(before) : i # k => after[i] = before[i]
    /\ after[k].id = before[k].id
    /\ after[k].name = IF "name" \in DOMAIN data THEN data.name ELSE before[k].name
    /\ after[k].url = IF "url" \in DOMAIN data THEN data.url ELSE before[k].url

\* C25: a webhook update (giving a name or a url) and a delete by an id that
\* no webhook has answer 404 and leave the registry unchanged; an update by
\* an id that exists changes only the given fields of that webhook, keeping
\* its id and position; a delete removes only that webhook and keeps the
\* order of the others, so the webhook at index 0 stays unless it is the one
\* removed.
C25_UpdateAndDeleteById ==
    \A webhook_id \in WebhookIdsNamed :
        /\ LET r == delete_webhook(Store, webhook_id, uuid)
           IN  IF webhook_id \notin WebhookIds
               THEN r.status = 404 /\ r.st.webhooks = webhooks
               ELSE /\ r.status = 200
                    /\ \E k \in 1..Len(webhooks) :
                          /\ webhooks[k].id = webhook_id
                          /\ RemovedAt(webhooks, r.st.webhooks, k)
                          /\ (k # 1 => r.st.webhooks[1] = webhooks[1])
        /\ \A data \in UpdateWebhookBodies :
              ("name" \in DOMAIN data \/ "url" \in DOMAIN data) =>
                LET r == update_webhook(Store, webhook_id, data, uuid)
                IN  IF webhook_id \notin WebhookIds
                    THEN r.status = 404 /\ r.st.webhooks = webhooks
                    ELSE /\ r.status = 200
                         /\ \E k \in 1..Len(webhooks) :
                               /\ webhooks[k].id = webhook_id
                               /\ UpdatedAt(webhooks, r.st.webhooks, k, data)

\* C25's case: the second of two webhooks has been given another url by an
\* update naming its id, and the first is as it was created.
C25_Witness ==
    /\ Len(webhooks) = 2
    /\ webhooks[2].url = "http://d"
    /\ webhooks[1].url = "http://a"
    /\ webhooks[1].name = "n8n"

====
